---- MODULE Spec2Model ----
(***************************************************************************)
(* Model of the S3Vector store adapter (src/src/types.ts): one caller      *)
(* invokes the public operations one at a time; every operation sends      *)
(* commands to the remote S3 Vectors service through client.send and       *)
(* suspends until the command resolves.  The remote service is the         *)
(* environment: it fulfils or rejects each command.                        *)
(*                                                                         *)
(* Numbers (distances, scores, minScore) are integers, on which 1 - d is   *)
(* the same subtraction the code performs.  An optional value (a field     *)
(* that may be undefined) is a sequence of length 0 or 1.                  *)
(***************************************************************************)
EXTENDS Integers, Sequences, FiniteSets, TLC

\* ------------------------------------------------------------------ bounds

\* Largest number of embeddings in one upsert call.
MaxVectors == 25

\* Largest number of candidates in one QueryVectors response.
MaxCandidates == 3

\* ------------------------------------------------- optional values, helpers

Undefined == << >>
Some(v) == << v >>
IsDefined(o) == Len(o) > 0
Val(o) == o[1]

Min(a, b) == IF a < b THEN a ELSE b

\* Array.prototype.slice(from, to) on a sequence, with 0-based bounds.
Slice(s, from, to) == SubSeq(s, from + 1, Min(to, Len(s)))

\* arr?.[pos] for a 0-based position: undefined when the array is undefined
\* or has no element there.
ElementAt(arr, pos) ==
    IF IsDefined(arr) /\ pos < Len(Val(arr)) THEN Some(Val(arr)[pos + 1]) ELSE Undefined

\* ---------------------------------------------------------------- the data

IndexNames == {"docs"}
Metrics == {"cosine", "euclidean"}
Dimensions == {2, 3}

\* Failures of a remote call (the AWS SDK rejects client.send with an Error).
NotFound == [name |-> "NotFoundException", message |-> "index not found"]
Conflict == [name |-> "ConflictException", message |-> "index already exists"]
Unavailable == [name |-> "ServiceUnavailableException", message |-> "service unavailable"]

\* The i-th embedding of an input (positions are 0-based as in the code).
Embedding(pos) == << pos >>

EmptyMetadata == {}
MetadataOf(pos) == { << "pos", pos >> }

VectorStoreError(message, code, details) ==
    [name |-> "VectorStoreError", message |-> message, code |-> code, details |-> details]

\* error instanceof Error ? error.message : String(error): every failure of
\* the model is an Error.
MessageOf(error) == error.message

\* ----------------------------------------------------------------- upsert

BATCH_SIZE == 10

\* params.vectors.slice(i, i + BATCH_SIZE)
Batch_DropsLast(vectors, i) == Slice(vectors, i, i + BATCH_SIZE - 1)
Batch(vectors, i) == Slice(vectors, i, i + BATCH_SIZE)

\* `vector_${n}`
GeneratedKey(n) == "vector_" \o ToString(n)

\* params.ids?.[i + index] || `vector_${i + index}`: the empty string is
\* falsy, like a missing element.
RecordKey_PerChunk(ids, i, index) ==
    LET id == ElementAt(ids, i + index)
    IN  IF IsDefined(id) /\ Val(id) # "" THEN Val(id) ELSE GeneratedKey(index)
RecordKey(ids, i, index) ==
    LET id == ElementAt(ids, i + index)
    IN  IF IsDefined(id) /\ Val(id) # "" THEN Val(id) ELSE GeneratedKey(i + index)

\* params.metadata?.[i + index] || {}: an object is truthy.
RecordMetadata(metadata, i, index) ==
    LET md == ElementAt(metadata, i + index)
    IN  IF IsDefined(md) THEN Val(md) ELSE EmptyMetadata

\* new PutVectorsCommand({... vectors: batch.map((vector, index) => ...)})
UpsertCommand(params, i) ==
    LET batch == Batch(params.vectors, i)
    IN  [type |-> "PutVectors",
         indexName |-> params.indexName,
         vectors |-> [k \in 1..Len(batch) |->
                        [key |-> RecordKey(params.ids, i, k - 1),
                         data |-> batch[k],
                         metadata |-> RecordMetadata(params.metadata, i, k - 1)]]]

\* return params.ids || []
UpsertReturn(params) == IF IsDefined(params.ids) THEN Val(params.ids) ELSE << >>

UpsertMessage(params, error) ==
    "Failed to upsert vectors to index " \o params.indexName \o ": " \o MessageOf(error)

\* ------------------------------------------- the steps a handler can take

Send(cmd, nextI) == [kind |-> "send", cmd |-> cmd, i |-> nextI]
Return(value) == [kind |-> "done", outcome |-> [status |-> "ok", value |-> value]]
Throw(error) == [kind |-> "done", outcome |-> [status |-> "error", error |-> error]]

\* The for loop of upsert, entered with loop variable i: the next batch is
\* sent, or the loop is over and the ids are returned.
UpsertLoop(params, i) ==
    IF i < Len(params.vectors)
    THEN Send(UpsertCommand(params, i), i)
    ELSE Return(UpsertReturn(params))

\* The inner catch wraps the failure; the outer catch of the same function
\* catches that VectorStoreError and wraps it again.
UpsertRejected_Continues(params, i, error) == UpsertLoop(params, i + BATCH_SIZE)
UpsertRejected(params, i, error) ==
    LET inner == VectorStoreError(UpsertMessage(params, error), "upsert_failed", error)
    IN  Throw(VectorStoreError(UpsertMessage(params, inner), "upsert_failed", inner))

UpsertFulfilled(params, i) == UpsertLoop(params, i + BATCH_SIZE)

\* ------------------------------------------------------------------ query

\* params.topK || 10: an absent or zero topK gives 10.
QueryTopK(topK) == IF IsDefined(topK) /\ Val(topK) # 0 THEN Val(topK) ELSE 10

QueryCommand(params) ==
    [type |-> "QueryVectors",
     indexName |-> params.indexName,
     queryVector |-> params.queryVector,
     topK |-> QueryTopK(params.topK),
     filter |-> params.filter,
     returnDistance |-> TRUE,
     returnMetadata |-> TRUE]

\* The callback of .filter: a candidate is tested only when minScore is given
\* and the candidate has a distance.
KeepCandidate_KeepsAll(minScore, candidate) == TRUE
KeepCandidate_Strict(minScore, candidate) ==
    IF IsDefined(minScore) /\ IsDefined(candidate.distance)
    THEN 1 - Val(candidate.distance) > Val(minScore)
    ELSE TRUE
KeepCandidate(minScore, candidate) ==
    IF IsDefined(minScore) /\ IsDefined(candidate.distance)
    THEN LET score == 1 - Val(candidate.distance)
         IN  score >= Val(minScore)
    ELSE TRUE

\* typedResult.distance !== undefined ? 1 - typedResult.distance : 0
Score_IsDistance(distance) == IF IsDefined(distance) THEN Val(distance) ELSE 0
Score(distance) == IF IsDefined(distance) THEN 1 - Val(distance) ELSE 0

\* The callback of .map: the QueryResult of a candidate.  The vector field is
\* present only when includeVector is truthy and the candidate has data.
ToQueryResult_AlwaysVector(params, candidate) ==
    [id |-> candidate.key,
     score |-> Score(candidate.distance),
     metadata |-> IF IsDefined(candidate.metadata)
                  THEN Val(candidate.metadata) ELSE EmptyMetadata,
     vector |-> IF IsDefined(candidate.data)
                THEN Some(Val(candidate.data)) ELSE Undefined]
ToQueryResult(params, candidate) ==
    [id |-> candidate.key,
     score |-> Score(candidate.distance),
     metadata |-> IF IsDefined(candidate.metadata)
                  THEN Val(candidate.metadata) ELSE EmptyMetadata,
     vector |-> IF IsDefined(params.includeVector) /\ Val(params.includeVector)
                   /\ IsDefined(candidate.data)
                THEN Some(Val(candidate.data)) ELSE Undefined]

Reverse(s) == [k \in 1..Len(s) |-> s[Len(s) + 1 - k]]

\* (response.vectors || []).filter(...).map(...)
QueryResults_Reversed(params, response) ==
    LET vectors == IF IsDefined(response.vectors) THEN Val(response.vectors) ELSE << >>
        Keep(c) == KeepCandidate(params.minScore, c)
        kept == Reverse(SelectSeq(vectors, Keep))
    IN  [k \in 1..Len(kept) |-> ToQueryResult(params, kept[k])]
QueryResults(params, response) ==
    LET vectors == IF IsDefined(response.vectors) THEN Val(response.vectors) ELSE << >>
        Keep(c) == KeepCandidate(params.minScore, c)
        kept == SelectSeq(vectors, Keep)
    IN  [k \in 1..Len(kept) |-> ToQueryResult(params, kept[k])]

\* ------------------------------------------------- the other operations

CreateIndexCommand(params) ==
    [type |-> "CreateIndex",
     indexName |-> params.indexName,
     dataType |-> "float32",
     dimension |-> params.dimension,
     distanceMetric |-> IF IsDefined(params.metric) THEN Val(params.metric) ELSE "cosine"]

GetIndexCommand(params) == [type |-> "GetIndex", indexName |-> params.indexName]

DeleteIndexCommand(params) == [type |-> "DeleteIndex", indexName |-> params.indexName]

ListIndexesCommand == [type |-> "ListIndexes"]

DeleteVectorsCommand(params) ==
    [type |-> "DeleteVectors", indexName |-> params.indexName, keys |-> << params.id >>]

UpdateCommand(params) ==
    [type |-> "PutVectors",
     indexName |-> params.indexName,
     vectors |-> << [key |-> params.id,
                     data |-> Val(params.update.vector),
                     metadata |-> params.update.metadata] >>]

\* The IndexStats describeIndex returns for a GetIndex response.
DescribeResult(response) ==
    [dimension |-> IF IsDefined(response.index) /\ Val(response.index).dimension # 0
                   THEN Val(response.index).dimension ELSE 0,
     count |-> 0,
     metric |-> IF IsDefined(response.index)
                THEN Val(response.index).distanceMetric ELSE "cosine"]

\* The code of the error an operation raises when its remote call fails.
FailureCode(name) ==
    CASE name = "createIndex" -> "index_creation_failed"
      [] name = "upsert" -> "upsert_failed"
      [] name = "query" -> "query_failed"
      [] name = "describeIndex" -> "describe_failed"
      [] name = "validateExistingIndex" -> "describe_failed"
      [] name = "deleteIndex" -> "delete_index_failed"
      [] name = "listIndexes" -> "list_indexes_failed"
      [] name = "updateVector" -> "update_vector_failed"
      [] name = "deleteVector" -> "delete_vector_failed"

FailureMessage(o, error) ==
    CASE o.name = "createIndex" ->
            "Failed to create index " \o o.params.indexName \o ": " \o MessageOf(error)
      [] o.name = "query" ->
            "Failed to query index " \o o.params.indexName \o ": " \o MessageOf(error)
      [] o.name \in {"describeIndex", "validateExistingIndex"} ->
            "Failed to describe index " \o o.params.indexName \o ": " \o MessageOf(error)
      [] o.name = "deleteIndex" ->
            "Failed to delete index " \o o.params.indexName \o ": " \o MessageOf(error)
      [] o.name = "listIndexes" ->
            "Failed to list indexes: " \o MessageOf(error)
      [] o.name = "updateVector" ->
            "Failed to update vector " \o o.params.id \o " in index "
                \o o.params.indexName \o ": " \o MessageOf(error)
      [] o.name = "deleteVector" ->
            "Failed to delete vector " \o o.params.id \o " from index "
                \o o.params.indexName \o ": " \o MessageOf(error)

\* The catch block of every operation but upsert: one VectorStoreError with
\* the caught error as details.
Wrapped(o, error) ==
    Throw(VectorStoreError(FailureMessage(o, error), FailureCode(o.name), error))

\* updateVector up to its await: without update.vector the guard throws inside
\* the try block, and the catch block of the same function wraps that error.
UpdateVectorStart(o) ==
    IF ~IsDefined(o.params.update.vector)
    THEN Wrapped(o, VectorStoreError(
             "Vector data is required for update operation in S3 Vectors",
             "update_requires_vector_data", Undefined))
    ELSE Send(UpdateCommand(o.params), 0)

\* The callback validateExistingIndex chains to describeIndex.
ValidateStats_DimensionOnly(params, stats) ==
    IF stats.dimension # params.dimension
    THEN Throw(VectorStoreError(
             "Index " \o params.indexName
                 \o " already exists with different dimension or metric",
             "index_mismatch", Undefined))
    ELSE Return(Undefined)
ValidateStats(params, stats) ==
    IF stats.dimension # params.dimension \/ stats.metric # params.metric
    THEN Throw(VectorStoreError(
             "Index " \o params.indexName
                 \o " already exists with different dimension or metric",
             "index_mismatch", Undefined))
    ELSE Return(Undefined)

\* An operation from its call to its first await (or to its end).
Start(o) ==
    CASE o.name = "createIndex" -> Send(CreateIndexCommand(o.params), 0)
      [] o.name = "upsert" -> UpsertLoop(o.params, 0)
      [] o.name = "query" -> Send(QueryCommand(o.params), 0)
      [] o.name \in {"describeIndex", "validateExistingIndex"} ->
            Send(GetIndexCommand(o.params), 0)
      [] o.name = "deleteIndex" -> Send(DeleteIndexCommand(o.params), 0)
      [] o.name = "listIndexes" -> Send(ListIndexesCommand, 0)
      [] o.name = "updateVector" -> UpdateVectorStart(o)
      [] o.name = "deleteVector" -> Send(DeleteVectorsCommand(o.params), 0)

\* An operation resumed after its awaited command was fulfilled.
OnFulfilled(o, at, response) ==
    CASE o.name = "upsert" -> UpsertFulfilled(o.params, at)
      [] o.name = "query" -> Return(QueryResults(o.params, response))
      [] o.name = "describeIndex" -> Return(DescribeResult(response))
      [] o.name = "validateExistingIndex" ->
            ValidateStats(o.params, DescribeResult(response))
      [] o.name = "listIndexes" ->
            Return(IF IsDefined(response.indexes) THEN Val(response.indexes) ELSE << >>)
      [] OTHER -> Return(Undefined)

\* An operation resumed after its awaited command was rejected.
OnRejected_DescribeDefaults(o, at, error) ==
    IF o.name = "upsert" THEN UpsertRejected(o.params, at, error)
    ELSE IF o.name = "describeIndex" THEN Return(DescribeResult([index |-> Undefined]))
    ELSE Wrapped(o, error)
OnRejected(o, at, error) ==
    IF o.name = "upsert" THEN UpsertRejected(o.params, at, error) ELSE Wrapped(o, error)

\* ------------------------------------------------ the inputs of the model

\* The embeddings of an upsert of n vectors: pairwise different, so that a
\* lost, repeated or displaced record shows.
Vectors(n) == [k \in 1..n |-> Embedding(k - 1)]

\* A supplied ids array of length n whose element at 1-based place `empty`
\* (if any) is the empty string.
SuppliedIds(n, empty) ==
    [k \in 1..n |-> IF k = empty THEN "" ELSE "id_" \o ToString(k - 1)]

\* Places of an empty id in a supplied ids array (0: none).
EmptyIdAt == {0, 1, 12}

\* Lengths of an optional array given beside n vectors: parallel, or one short.
ArrayLengths(n) == {n} \cup (IF n > 0 THEN {n - 1} ELSE {})

IdsChoices(n) ==
    {Undefined} \cup
    { Some(SuppliedIds(len, e)) : len \in ArrayLengths(n), e \in {x \in EmptyIdAt : x <= n} }

MetadataChoices(n) ==
    {Undefined} \cup { Some([k \in 1..len |-> MetadataOf(k - 1)]) : len \in ArrayLengths(n) }

UpsertParams ==
    UNION { { [indexName |-> name, vectors |-> Vectors(n), metadata |-> md, ids |-> ids] :
                name \in IndexNames, md \in MetadataChoices(n), ids \in IdsChoices(n) } :
            n \in 0..MaxVectors }

CreateIndexParams ==
    { [indexName |-> name, dimension |-> d, metric |-> m] :
        name \in IndexNames, d \in Dimensions,
        m \in {Undefined} \cup { Some(x) : x \in Metrics } }

IndexParams == { [indexName |-> name] : name \in IndexNames }

ValidateParams ==
    { [indexName |-> name, dimension |-> d, metric |-> m] :
        name \in IndexNames, d \in Dimensions, m \in Metrics }

MinScores == {0, 1}
TopKs == {Undefined, Some(0), Some(1)}

QueryParams ==
    { [indexName |-> name, queryVector |-> Embedding(0), topK |-> k, filter |-> Undefined,
       includeVector |-> iv, minScore |-> ms] :
        name \in IndexNames, k \in TopKs,
        iv \in {Undefined, Some(TRUE), Some(FALSE)},
        ms \in {Undefined} \cup { Some(x) : x \in MinScores } }

VectorIds == {"id_0"}

UpdateVectorParams ==
    { [indexName |-> name, id |-> id, update |-> [vector |-> v, metadata |-> md]] :
        name \in IndexNames, id \in VectorIds,
        v \in {Undefined, Some(Embedding(0))},
        md \in {Undefined, Some(MetadataOf(0))} }

DeleteVectorParams ==
    { [indexName |-> name, id |-> id] : name \in IndexNames, id \in VectorIds }

\* -------------------------------------------------------- the remote service

Distances == {0, 1, 2}

\* The candidate the remote service reports at place k of a response: keys are
\* unique within an index; the distance and the data may be absent.
Candidates(k) ==
    { [key |-> "key_" \o ToString(k),
       distance |-> d,
       metadata |-> IF k % 2 = 1 THEN Some(MetadataOf(k)) ELSE Undefined,
       data |-> e] :
        d \in {Undefined} \cup { Some(x) : x \in Distances },
        e \in {Undefined, Some(Embedding(k))} }

RECURSIVE CandidateLists(_)
CandidateLists(n) ==
    IF n = 0 THEN { << >> }
    ELSE LET shorter == CandidateLists(n - 1)
         IN  shorter \cup
             { Append(s, c) : s \in {x \in shorter : Len(x) = n - 1}, c \in Candidates(n) }

\* ------------------------------------------------------------------ state

VARIABLES
    remoteIndexes,  \* the remote bucket: index name -> optional {dimension, distanceMetric}
    committed,      \* records the remote service holds through the current invocation's writes
    pc,             \* "idle", "awaiting" (suspended at an await) or "done"
    op,             \* the operation being executed: its name and params
    i,              \* the loop variable i of upsert
    calls,          \* the commands the invocation has sent, in order, each with its
                    \* status and the response or failure it resolved with
    result,         \* the outcome the caller receives: a value or a thrown error
    justDeleted     \* history: the index names the caller's previous invocation, a
                    \* deleteIndex that succeeded, deleted (empty otherwise)

vars == << remoteIndexes, committed, pc, op, i, calls, result, justDeleted >>

NoOp == [name |-> "none"]

Init ==
    /\ remoteIndexes = [name \in IndexNames |-> Undefined]
    /\ committed = << >>
    /\ pc = "idle"
    /\ op = NoOp
    /\ i = 0
    /\ calls = << >>
    /\ result = Undefined
    /\ justDeleted = {}

IndexExists(name) == IsDefined(remoteIndexes[name])

\* Whether the remote service can carry out a command in its current state.
CanFulfil(cmd) ==
    CASE cmd.type = "CreateIndex" -> ~IndexExists(cmd.indexName)
      [] cmd.type = "ListIndexes" -> TRUE
      [] OTHER -> IndexExists(cmd.indexName)

\* The failures client.send can reject a command with.
Failures(cmd) ==
    {Unavailable} \cup
    (CASE cmd.type = "CreateIndex" ->
            IF IndexExists(cmd.indexName) THEN {Conflict} ELSE {}
       [] cmd.type = "ListIndexes" -> {}
       [] OTHER -> IF IndexExists(cmd.indexName) THEN {} ELSE {NotFound})

ExistingIndexes == { name \in IndexNames : IndexExists(name) }

\* The responses the remote service can give to a command it carries out.
Responses(cmd) ==
    CASE cmd.type = "GetIndex" -> { [index |-> remoteIndexes[cmd.indexName]] }
      [] cmd.type = "ListIndexes" ->
            { [indexes |-> Some(CHOOSE s \in [1..Cardinality(ExistingIndexes) -> ExistingIndexes] :
                                    { s[k] : k \in DOMAIN s } = ExistingIndexes)] }
      [] cmd.type = "QueryVectors" ->
            { [vectors |-> Undefined] } \cup
            { [vectors |-> Some(c)] : c \in CandidateLists(Min(MaxCandidates, cmd.topK)) }
      [] OTHER -> { [metadata |-> "ok"] }

\* The remote state after a command is carried out.
IndexesAfter(cmd) ==
    CASE cmd.type = "CreateIndex" ->
            [remoteIndexes EXCEPT ![cmd.indexName] =
                Some([dimension |-> cmd.dimension, distanceMetric |-> cmd.distanceMetric])]
      [] cmd.type = "DeleteIndex" -> [remoteIndexes EXCEPT ![cmd.indexName] = Undefined]
      [] OTHER -> remoteIndexes

CommittedAfter(cmd) ==
    CASE cmd.type = "PutVectors" -> committed \o cmd.vectors
      [] cmd.type = "DeleteVectors" ->
            LET Kept(r) == \A k \in DOMAIN cmd.keys : cmd.keys[k] # r.key
            IN  SelectSeq(committed, Kept)
      [] cmd.type = "DeleteIndex" -> << >>
      [] OTHER -> committed

Pending == { j \in DOMAIN calls : calls[j].status = "pending" }

Resolved(j, status, response, failure) ==
    [calls EXCEPT ![j] = [cmd |-> calls[j].cmd, status |-> status,
                          response |-> response, failure |-> failure]]

\* A step of a handler takes effect: a command is sent and the handler
\* suspends, or the handler ends with a value or an error.
Apply(step, log) ==
    IF step.kind = "send"
    THEN /\ pc' = "awaiting"
         /\ i' = step.i
         /\ calls' = Append(log, [cmd |-> step.cmd, status |-> "pending",
                                  response |-> Undefined, failure |-> Undefined])
         /\ result' = Undefined
    ELSE /\ pc' = "done"
         /\ i' = i
         /\ calls' = log
         /\ result' = Some(step.outcome)

\* The caller invokes operation o: it runs to its first await or to its end.
Invoke(o) ==
    /\ pc = "idle"
    /\ op' = o
    /\ Apply(Start(o), << >>)
    /\ UNCHANGED << remoteIndexes, committed, justDeleted >>

\* ---------------------------------------------------------------- actions

createIndex == \E params \in CreateIndexParams : Invoke([name |-> "createIndex", params |-> params])

upsert == \E params \in UpsertParams : Invoke([name |-> "upsert", params |-> params])

query == \E params \in QueryParams : Invoke([name |-> "query", params |-> params])

describeIndex == \E params \in IndexParams : Invoke([name |-> "describeIndex", params |-> params])

deleteIndex == \E params \in IndexParams : Invoke([name |-> "deleteIndex", params |-> params])

listIndexes == Invoke([name |-> "listIndexes", params |-> Undefined])

updateVector == \E params \in UpdateVectorParams : Invoke([name |-> "updateVector", params |-> params])

deleteVector == \E params \in DeleteVectorParams : Invoke([name |-> "deleteVector", params |-> params])

validateExistingIndex ==
    \E params \in ValidateParams : Invoke([name |-> "validateExistingIndex", params |-> params])

\* The remote service carries out a pending command; the suspended handler
\* resumes with the response.
Fulfil ==
    /\ pc = "awaiting"
    /\ \E j \in Pending :
         /\ CanFulfil(calls[j].cmd)
         /\ \E response \in Responses(calls[j].cmd) :
              /\ remoteIndexes' = IndexesAfter(calls[j].cmd)
              /\ committed' = CommittedAfter(calls[j].cmd)
              /\ Apply(OnFulfilled(op, i, response), Resolved(j, "ok", Some(response), Undefined))
    /\ UNCHANGED << op, justDeleted >>

\* client.send rejects a pending command; the suspended handler resumes in
\* its catch block.
Reject_Retries ==
    /\ pc = "awaiting"
    /\ \E j \in Pending :
         \E error \in Failures(calls[j].cmd) :
              Apply(IF Len(calls) < 2 THEN Send(calls[j].cmd, i) ELSE OnRejected(op, i, error),
                    Resolved(j, "failed", Undefined, Some(error)))
    /\ UNCHANGED << remoteIndexes, committed, op, justDeleted >>
Reject ==
    /\ pc = "awaiting"
    /\ \E j \in Pending :
         \E error \in Failures(calls[j].cmd) :
              Apply(OnRejected(op, i, error), Resolved(j, "failed", Undefined, Some(error)))
    /\ UNCHANGED << remoteIndexes, committed, op, justDeleted >>

\* The caller has received the outcome; the next invocation can start.
Settle ==
    /\ pc = "done"
    /\ pc' = "idle"
    /\ op' = NoOp
    /\ i' = 0
    /\ calls' = << >>
    /\ committed' = << >>
    /\ result' = Undefined
    /\ justDeleted' = IF op.name = "deleteIndex" /\ Val(result).status = "ok"
                      THEN {op.params.indexName} ELSE {}
    /\ UNCHANGED remoteIndexes

Next ==
    \/ createIndex
    \/ upsert
    \/ query
    \/ describeIndex
    \/ deleteIndex
    \/ listIndexes
    \/ updateVector
    \/ deleteVector
    \/ validateExistingIndex
    \/ Fulfil
    \/ Reject
    \/ Settle

Spec == Init /\ [][Next]_vars

\* ------------------------------------------------------- claims: helpers

Done(name) == pc = "done" /\ op.name = name
Outcome == Val(result)
Succeeded == Outcome.status = "ok"
Thrown == Outcome.status = "error"

\* All records of the commands log[1..n], in the order sent.
RECURSIVE RecordsSent(_, _)
RecordsSent(log, n) ==
    IF n = 0 THEN << >> ELSE RecordsSent(log, n - 1) \o log[n].cmd.vectors

DataOf(records) == [k \in DOMAIN records |-> records[k].data]

\* The 0-based place of an embedding in the input of the upsert.
PositionOf(embedding) ==
    CHOOSE p \in 0..(Len(op.params.vectors) - 1) : op.params.vectors[p + 1] = embedding

\* The candidates of the response the query received, and its results.
QueryCandidates ==
    LET response == Val(calls[1].response)
    IN  IF IsDefined(response.vectors) THEN Val(response.vectors) ELSE << >>
QueryReturned == Outcome.value
MinScore == op.params.minScore
ResultsOf(candidate) ==
    { k \in DOMAIN QueryReturned : QueryReturned[k].id = candidate.key }

\* ------------------------------------------------------------------ claims

PublicOperations ==
    {"createIndex", "upsert", "query", "describeIndex", "deleteIndex", "listIndexes",
     "updateVector", "deleteVector"}

\* The ids an upsert submits according to the specification: the supplied
\* ids, or vector_0 .. vector_{N-1} when ids are omitted.
SubmittedIds(params) ==
    IF IsDefined(params.ids) THEN Val(params.ids)
    ELSE [k \in 1..Len(params.vectors) |-> "vector_" \o ToString(k - 1)]

\* C1: an upsert whose remote writes all succeed returns the full list of the
\* submitted ids in input order: the supplied ids, or vector_0 .. vector_{N-1}
\* when ids are omitted.
C1_ReturnsSubmittedIds ==
    (Done("upsert") /\ Succeeded) => Outcome.value = SubmittedIds(op.params)

\* C2: updateVector without update.vector fails with an error whose code is
\* update_requires_vector_data, and sends no command.
C2_UpdateRequiresVectorData ==
    (Done("updateVector") /\ ~IsDefined(op.params.update.vector)) =>
        /\ Thrown
        /\ Outcome.error.code = "update_requires_vector_data"
        /\ calls = << >>

\* C3: when a command of a public operation fails, the caller receives one
\* VectorStoreError with the code of the operation whose details is the remote
\* failure itself, not another VectorStoreError.
C3_FailureWrappedOnce ==
    (pc = "done" /\ op.name \in PublicOperations) =>
        \A j \in DOMAIN calls :
            calls[j].status = "failed" =>
                /\ Thrown
                /\ Outcome.error.name = "VectorStoreError"
                /\ Outcome.error.code = FailureCode(op.name)
                /\ Outcome.error.details.name # "VectorStoreError"
                /\ Outcome.error.details = Val(calls[j].failure)

\* ceil(n / 10)
CeilTenth(n) == IF n % 10 = 0 THEN n \div 10 ELSE (n \div 10) + 1

\* C4: an upsert of N embeddings whose writes all succeed sends ceil(N/10)
\* PutVectors commands of 1 to 10 records each, whose records, taken in the
\* order sent, carry exactly the input embeddings in input order.
C4_ChunksCoverInput ==
    (Done("upsert") /\ Succeeded) =>
        /\ Len(calls) = CeilTenth(Len(op.params.vectors))
        /\ \A j \in DOMAIN calls :
              /\ calls[j].cmd.type = "PutVectors"
              /\ Len(calls[j].cmd.vectors) >= 1
              /\ Len(calls[j].cmd.vectors) <= 10
        /\ DataOf(RecordsSent(calls, Len(calls))) = op.params.vectors

\* Witness of C4: 25 embeddings were written by three commands of 10, 10 and 5.
C4_Witness ==
    /\ Done("upsert") /\ Succeeded
    /\ Len(op.params.vectors) = 25
    /\ Len(calls) = 3
    /\ Len(calls[1].cmd.vectors) = 10
    /\ Len(calls[2].cmd.vectors) = 10
    /\ Len(calls[3].cmd.vectors) = 5

AllRecordsSent == RecordsSent(calls, Len(calls))

\* C5 as stated: the key of the record for the embedding at input position i
\* is ids[i] when ids are supplied (and have an element i) and vector_i when
\* ids are omitted.
C5_KeyIsSuppliedId ==
    op.name = "upsert" =>
        \A k \in DOMAIN AllRecordsSent :
            LET pos == PositionOf(AllRecordsSent[k].data)
                ids == op.params.ids
            IN  IF IsDefined(ids)
                THEN pos < Len(Val(ids)) => AllRecordsSent[k].key = Val(ids)[pos + 1]
                ELSE AllRecordsSent[k].key = "vector_" \o ToString(pos)

\* C5 (amended): the key of the record for the embedding at input position i
\* is ids[i] when ids has a non-empty element i, and vector_i otherwise (ids
\* omitted, shorter than the input, or ids[i] empty); the position is the one
\* in the whole input, whatever the chunk.
C5_KeyByOverallPosition ==
    op.name = "upsert" =>
        \A k \in DOMAIN AllRecordsSent :
            LET pos == PositionOf(AllRecordsSent[k].data)
                ids == op.params.ids
            IN  AllRecordsSent[k].key =
                    IF IsDefined(ids) /\ pos < Len(Val(ids)) /\ Val(ids)[pos + 1] # ""
                    THEN Val(ids)[pos + 1]
                    ELSE "vector_" \o ToString(pos)

\* Witness of C5: the second chunk of an upsert was sent with a generated key
\* (ids omitted, or the id at place 11 empty) beside supplied ones.
C5_Witness ==
    /\ Done("upsert") /\ Succeeded
    /\ IsDefined(op.params.ids)
    /\ Len(calls) >= 2
    /\ Len(calls[2].cmd.vectors) >= 2
    /\ calls[2].cmd.vectors[1].key = "id_10"
    /\ calls[2].cmd.vectors[2].key = "vector_11"
    /\ calls[2].cmd.vectors[2].data = op.params.vectors[12]

\* C6: the chunks of an upsert are written one after another: a command is
\* sent only when every earlier one has been fulfilled, so a failed command
\* is the last one sent; the call then ends with an upsert_failed error, only
\* PutVectors commands were sent (no rollback), and the remote service holds
\* the records of the chunks before the failed one.
C6_SequentialNoRollback ==
    op.name = "upsert" =>
        /\ \A j \in DOMAIN calls : j < Len(calls) => calls[j].status = "ok"
        /\ \A j \in DOMAIN calls :
              calls[j].status = "failed" =>
                  /\ pc = "done" /\ Thrown
                  /\ Outcome.error.code = "upsert_failed"
                  /\ \A h \in DOMAIN calls : calls[h].cmd.type = "PutVectors"
                  /\ committed = RecordsSent(calls, j - 1)
                  /\ DataOf(committed) = SubSeq(op.params.vectors, 1, 10 * (j - 1))

\* Witness of C6: the third chunk of an upsert failed after two chunks of 10
\* records were committed.
C6_Witness ==
    /\ Done("upsert") /\ Thrown
    /\ Len(calls) = 3
    /\ calls[3].status = "failed"
    /\ Len(committed) = 20

\* C7: a result built from a candidate with reported distance d has score 1 - d.
C7_ScoreIsOneMinusDistance ==
    (Done("query") /\ Succeeded) =>
        \A c \in DOMAIN QueryCandidates :
            IsDefined(QueryCandidates[c].distance) =>
                \A k \in ResultsOf(QueryCandidates[c]) :
                    QueryReturned[k].score = 1 - Val(QueryCandidates[c].distance)

\* Witness of C7: a query returned candidates with distances 0 and 2.
C7_Witness ==
    /\ Done("query") /\ Succeeded
    /\ \E c \in DOMAIN QueryCandidates :
          /\ QueryCandidates[c].distance = Some(0)
          /\ ResultsOf(QueryCandidates[c]) # {}
    /\ \E c \in DOMAIN QueryCandidates :
          /\ QueryCandidates[c].distance = Some(2)
          /\ ResultsOf(QueryCandidates[c]) # {}

\* C8 as stated: with minScore = s no returned result has a score below s.
C8_NoScoreBelowMinScore ==
    (Done("query") /\ Succeeded /\ IsDefined(MinScore)) =>
        \A k \in DOMAIN QueryReturned : QueryReturned[k].score >= Val(MinScore)

\* C8 (amended): with minScore = s no returned result built from a candidate
\* that reported a distance has a score below s (a candidate without a
\* distance is returned with score 0 whatever s is).
C8_NoReportedScoreBelowMinScore ==
    (Done("query") /\ Succeeded /\ IsDefined(MinScore)) =>
        \A c \in DOMAIN QueryCandidates :
            IsDefined(QueryCandidates[c].distance) =>
                \A k \in ResultsOf(QueryCandidates[c]) :
                    QueryReturned[k].score >= Val(MinScore)

\* Witness of C8: with minScore = 1 a candidate at distance 0 was returned and
\* the response also held a candidate at distance 1.
C8_Witness ==
    /\ Done("query") /\ Succeeded
    /\ MinScore = Some(1)
    /\ \E c \in DOMAIN QueryCandidates :
          /\ QueryCandidates[c].distance = Some(0)
          /\ ResultsOf(QueryCandidates[c]) # {}
    /\ \E c \in DOMAIN QueryCandidates : QueryCandidates[c].distance = Some(1)

\* Whether the minScore filter has to drop a candidate.
BelowMinScore(candidate) ==
    /\ IsDefined(MinScore)
    /\ IsDefined(candidate.distance)
    /\ 1 - Val(candidate.distance) < Val(MinScore)

\* C9: a candidate is dropped exactly when minScore is given, the candidate
\* has a distance d and 1 - d is below minScore; a candidate without a
\* distance is never dropped, and without minScore none is.
C9_DroppedExactlyBelowMinScore ==
    (Done("query") /\ Succeeded) =>
        \A c \in DOMAIN QueryCandidates :
            (ResultsOf(QueryCandidates[c]) = {}) <=> BelowMinScore(QueryCandidates[c])

\* Witness of C9: with minScore given, one response held a candidate exactly at
\* minScore (kept), one below it (dropped) and one without a distance (kept).
C9_Witness ==
    /\ Done("query") /\ Succeeded /\ IsDefined(MinScore)
    /\ \E c \in DOMAIN QueryCandidates :
          /\ IsDefined(QueryCandidates[c].distance)
          /\ 1 - Val(QueryCandidates[c].distance) = Val(MinScore)
          /\ ResultsOf(QueryCandidates[c]) # {}
    /\ \E c \in DOMAIN QueryCandidates :
          /\ BelowMinScore(QueryCandidates[c])
          /\ ResultsOf(QueryCandidates[c]) = {}
    /\ \E c \in DOMAIN QueryCandidates :
          /\ ~IsDefined(QueryCandidates[c].distance)
          /\ ResultsOf(QueryCandidates[c]) # {}

\* The place in the response of the candidate a result was built from.
CandidatePlace(r) == CHOOSE c \in DOMAIN QueryCandidates : QueryCandidates[c].key = r.id

\* C10: the returned list is an order-preserving subsequence of the response:
\* every result stems from a candidate, and results keep the relative order
\* of their candidates, none appearing twice.
C10_OrderPreservingSubsequence ==
    (Done("query") /\ Succeeded) =>
        /\ \A k \in DOMAIN QueryReturned :
              \E c \in DOMAIN QueryCandidates : QueryCandidates[c].key = QueryReturned[k].id
        /\ \A a, b \in DOMAIN QueryReturned :
              a < b => CandidatePlace(QueryReturned[a]) < CandidatePlace(QueryReturned[b])

\* Witness of C10: of three candidates the middle one was dropped and the
\* other two were returned.
C10_Witness ==
    /\ Done("query") /\ Succeeded
    /\ Len(QueryCandidates) = 3
    /\ Len(QueryReturned) = 2
    /\ QueryReturned[1].id = QueryCandidates[1].key
    /\ QueryReturned[2].id = QueryCandidates[3].key

\* C11: a QueryResult carries a vector exactly when includeVector is true and
\* the candidate it was built from came with embedding data (the vector is
\* then that data); in every other case it has no vector field.
C11_VectorOnlyWhenRequestedAndPresent ==
    (Done("query") /\ Succeeded) =>
        \A c \in DOMAIN QueryCandidates :
            \A k \in ResultsOf(QueryCandidates[c]) :
                /\ IsDefined(QueryReturned[k].vector) <=>
                      (op.params.includeVector = Some(TRUE) /\ IsDefined(QueryCandidates[c].data))
                /\ IsDefined(QueryReturned[k].vector) =>
                      Val(QueryReturned[k].vector) = Val(QueryCandidates[c].data)

\* Witness of C11: with includeVector true, one response held a candidate with
\* data, returned with its vector, and one without data, returned without.
C11_Witness ==
    /\ Done("query") /\ Succeeded
    /\ op.params.includeVector = Some(TRUE)
    /\ \E c \in DOMAIN QueryCandidates :
          /\ IsDefined(QueryCandidates[c].data)
          /\ \E k \in ResultsOf(QueryCandidates[c]) : IsDefined(QueryReturned[k].vector)
    /\ \E c \in DOMAIN QueryCandidates :
          /\ ~IsDefined(QueryCandidates[c].data)
          /\ \E k \in ResultsOf(QueryCandidates[c]) : ~IsDefined(QueryReturned[k].vector)

\* C12: a describeIndex(name) that follows a deleteIndex(name) that succeeded
\* sends the GetIndex command (it decides nothing locally), cannot succeed,
\* and ends with a describe_failed error whose details is the failure the
\* remote service rejected GetIndex with: the remote not-found failure
\* whenever the service answered that the index is missing.
C12_DescribeAfterDeleteFails ==
    (op.name = "describeIndex" /\ op.params.indexName \in justDeleted) =>
        /\ Len(calls) = 1
        /\ calls[1].cmd = [type |-> "GetIndex", indexName |-> op.params.indexName]
        /\ pc = "done" =>
              /\ Thrown
              /\ calls[1].status = "failed"
              /\ Outcome.error.name = "VectorStoreError"
              /\ Outcome.error.code = "describe_failed"
              /\ Outcome.error.details = Val(calls[1].failure)
              /\ Outcome.error.details \in {NotFound, Unavailable}
              /\ (Val(calls[1].failure).name = "NotFoundException") =>
                    Outcome.error.details = NotFound

\* Witness of C12: describeIndex after a successful deleteIndex of the same
\* index ended with describe_failed wrapping the remote not-found failure.
C12_Witness ==
    /\ Done("describeIndex")
    /\ op.params.indexName \in justDeleted
    /\ Thrown
    /\ Outcome.error.code = "describe_failed"
    /\ Outcome.error.details = NotFound
    /\ Len(calls) = 1

\* Whether the index the GetIndex call described differs from the dimension
\* or the metric validateExistingIndex was given.
DescribedMismatch ==
    LET described == Val(Val(calls[1].response).index)
    IN  \/ described.dimension # op.params.dimension
        \/ described.distanceMetric # op.params.metric

\* C13: validateExistingIndex describes the index (one GetIndex call) and then
\* fails with index_mismatch whenever the described dimension or metric
\* differs from the given one; it completes without error exactly when the
\* index was described and both are equal.
C13_ValidateExistingIndex ==
    Done("validateExistingIndex") =>
        /\ Len(calls) = 1
        /\ calls[1].cmd = [type |-> "GetIndex", indexName |-> op.params.indexName]
        /\ Succeeded <=> (calls[1].status = "ok" /\ ~DescribedMismatch)
        /\ (calls[1].status = "ok" /\ DescribedMismatch) =>
              (Thrown /\ Outcome.error.code = "index_mismatch")

\* Witness of C13: an index of the given dimension but of another metric was
\* described, and validateExistingIndex failed with index_mismatch.
C13_Witness ==
    /\ Done("validateExistingIndex")
    /\ calls[1].status = "ok"
    /\ Val(Val(calls[1].response).index).dimension = op.params.dimension
    /\ Val(Val(calls[1].response).index).distanceMetric # op.params.metric
    /\ Thrown
    /\ Outcome.error.code = "index_mismatch"

\* The operations that send one command per invocation.
SingleCallOperations ==
    {"createIndex", "describeIndex", "deleteIndex", "listIndexes", "query", "deleteVector"}

\* C14: the adapter never retries: an invocation of createIndex,
\* describeIndex, deleteIndex, listIndexes, query, deleteVector, or of
\* updateVector with a vector, has sent exactly one command from its call to
\* its end, whether the command succeeded or failed; and in every operation a
\* command that failed is not sent again in the same invocation.
C14_NeverRetries ==
    /\ (pc # "idle" /\ (\/ op.name \in SingleCallOperations
                        \/ (op.name = "updateVector" /\ IsDefined(op.params.update.vector))))
          => Len(calls) = 1
    /\ \A j \in DOMAIN calls :
          calls[j].status = "failed" =>
              /\ j = Len(calls)
              /\ \A h \in DOMAIN calls : h # j => calls[h].cmd # calls[j].cmd

\* Witness of C14: the one command of a query failed and the call ended with
\* that command as the only one sent.
C14_Witness ==
    /\ Done("query") /\ Thrown
    /\ Len(calls) = 1
    /\ calls[1].status = "failed"

====
